---- MODULE Spec2Model ----
(***************************************************************************)
(* State-machine model of the Telegram media downloader bot                *)
(* (src/src/main.rs): the channel filter, handle_media_message,            *)
(* download_and_save_file with the media-group registry behind its mutex,  *)
(* and get_filename_and_extension.                                         *)
(*                                                                         *)
(* Strings are sequences of one-character strings, so that concatenation,  *)
(* Path::file_stem, Path::extension and str::replace are computed          *)
(* character by character.  Option<T> is <<>> (None) or <<x>> (Some(x)).   *)
(* Paths follow the Unix rules of std::path (the only separator is "/").   *)
(***************************************************************************)
EXTENDS Integers, Sequences, FiniteSets, TLC

\* ------------------------------------------------------------------------
\* Option<T>
\* ------------------------------------------------------------------------
None == <<>>
Some(x) == <<x>>
is_some(o) == o # None
unwrap(o) == o[1]
\* Option::or  (main.rs:148-151, 163-166)
or(a, b) == IF is_some(a) THEN a ELSE b
\* Option::unwrap_or  (main.rs:194, 236, 242)
unwrap_or(o, d) == IF is_some(o) THEN unwrap(o) ELSE d

\* ------------------------------------------------------------------------
\* Strings
\* ------------------------------------------------------------------------
\* All strings over the characters cs of length 0..n.
RECURSIVE StringsUpTo(_, _)
StringsUpTo(cs, n) ==
    IF n = 0 THEN {<<>>}
    ELSE LET shorter == StringsUpTo(cs, n - 1)
         IN  shorter \cup {Append(s, c) : s \in {t \in shorter : Len(t) = n - 1}, c \in cs}

Contains(s, c) == \E i \in 1..Len(s) : s[i] = c

SetMax(S) == CHOOSE x \in S : \A y \in S : y <= x
SetMin(S) == CHOOSE x \in S : \A y \in S : x <= y

\* Display of a u32 by format!("{}", n)  (main.rs:247)
DecimalDigits == <<"0", "1", "2", "3", "4", "5", "6", "7", "8", "9">>
RECURSIVE fmt_u32(_)
fmt_u32(n) ==
    IF n < 10 THEN <<DecimalDigits[n + 1]>>
    ELSE fmt_u32(n \div 10) \o <<DecimalDigits[(n % 10) + 1]>>

\* str::replace("/", "\\")  (main.rs:253)
replace_keep(s) == s
replace_slash(s) == [i \in 1..Len(s) |-> IF s[i] = "/" THEN "\\" ELSE s[i]]

\* ------------------------------------------------------------------------
\* std::path::Path on Unix
\* ------------------------------------------------------------------------
\* The pieces of s between "/" separators.
RECURSIVE split_separator(_)
split_separator(s) ==
    IF ~Contains(s, "/") THEN <<s>>
    ELSE LET i == SetMin({j \in 1..Len(s) : s[j] = "/"})
         IN  <<SubSeq(s, 1, i - 1)>> \o split_separator(SubSeq(s, i + 1, Len(s)))

\* Path::file_name: the last component when it is a normal one.  Empty pieces
\* (repeated or trailing separators) and "." pieces are normalised away; a
\* path ending in ".." or with no component left has no file name.
file_name_of(s) ==
    LET ps == split_separator(s)
        normal == {i \in 1..Len(ps) : ps[i] # <<>> /\ ps[i] # <<".">>}
    IN  IF normal = {} THEN None
        ELSE LET last == ps[SetMax(normal)]
             IN  IF last = <<".", ".">> THEN None ELSE Some(last)

\* rsplit_file_at_dot: <<before, after>> the last ".", both Options.
rsplit_file_at_dot(f) ==
    IF f = <<".", ".">> THEN <<Some(f), None>>
    ELSE IF ~Contains(f, ".") THEN <<None, Some(f)>>
    ELSE LET i == SetMax({j \in 1..Len(f) : f[j] = "."})
             before == SubSeq(f, 1, i - 1)
             after == SubSeq(f, i + 1, Len(f))
         IN  IF before = <<>> THEN <<Some(f), None>>
             ELSE <<Some(before), Some(after)>>

\* Path::file_stem  (main.rs:193)
file_stem(s) ==
    LET n == file_name_of(s)
    IN  IF n = None THEN None
        ELSE LET sp == rsplit_file_at_dot(unwrap(n))
             IN  or(sp[1], sp[2])

\* Path::extension  (main.rs:235)
extension(s) ==
    LET n == file_name_of(s)
    IN  IF n = None THEN None
        ELSE LET sp == rsplit_file_at_dot(unwrap(n))
             IN  IF is_some(sp[1]) THEN sp[2] ELSE None

\* Path::is_absolute on Unix  (main.rs:214)
is_absolute_never(s) == FALSE
is_absolute(s) == Len(s) > 0 /\ s[1] = "/"

\* ------------------------------------------------------------------------
\* get_filename_and_extension  (main.rs:227-256)
\* ------------------------------------------------------------------------
S_title_open == <<"t", "i", "t", "l", "e", ":", "[">>
S_page_open == <<"{", "p", "a", "g", "e", ":">>
S_jpg == <<"j", "p", "g">>
S_mp4 == <<"m", "p", "4">>
S_mp3 == <<"m", "p", "3">>

\* main.rs:238-245
prefix_from_hint(file_name, media_group_data) ==
    <<"[">> \o unwrap_or(file_name, <<>>) \o <<"]">>
prefix_of(file_name, media_group_data) ==
    IF is_some(media_group_data)
    THEN S_title_open \o unwrap(media_group_data).title \o <<"]">>
    ELSE LET stem == unwrap_or(file_name, <<>>)
         IN  <<"[">> \o stem \o <<"]">>

\* main.rs:246-247
page_part_none(media_group_data) == <<>>
page_part_of(media_group_data) ==
    IF is_some(media_group_data)
    THEN S_page_open \o fmt_u32(unwrap(media_group_data).page_number) \o <<"}">>
    ELSE <<>>

get_filename_without_id(unique_id, file_name, default_ext, media_group_data) ==
    LET filename == prefix_of(file_name, media_group_data) \o <<"_">>
                    \o page_part_of(media_group_data)
    IN  [filename |-> replace_slash(filename),
         extension |-> IF is_some(file_name)
                       THEN unwrap_or(extension(unwrap(file_name)), default_ext)
                       ELSE default_ext]
get_filename_and_extension(unique_id, file_name, default_ext, media_group_data) ==
    LET ext == IF is_some(file_name)
               THEN unwrap_or(extension(unwrap(file_name)), default_ext)
               ELSE default_ext
        prefix == prefix_of(file_name, media_group_data)
        page_part == page_part_of(media_group_data)
        filename == prefix \o <<"_">> \o unique_id \o page_part
    IN  [filename |-> replace_slash(filename), extension |-> ext]

\* ------------------------------------------------------------------------
\* handle_media_message: the media extractor  (main.rs:113-175)
\* ------------------------------------------------------------------------
\* A message is [chat_id, kind, caption, file_name, media_group_id, files]:
\* kind is "Photo", "Video", "Audio", "Text" (another MediaKind) or "Service"
\* (a MessageKind other than Common); files are the photo's size variants in
\* the order the platform lists them, or the single file of a video or audio,
\* each [unique_id, size].

\* Iterator::max_by_key: a fold that keeps the accumulated element only when
\* it compares strictly Greater than the next one  (main.rs:127-131)
RECURSIVE max_by_key_fold(_, _, _)
max_by_key_fold(photo, acc, i) ==
    IF i > Len(photo) THEN acc
    ELSE max_by_key_fold(photo, IF photo[acc].size > photo[i].size THEN acc ELSE i, i + 1)

max_by_key_first(photo) ==
    SetMin({i \in 1..Len(photo) : \A j \in 1..Len(photo) : photo[j].size <= photo[i].size})
max_by_key(photo) == max_by_key_fold(photo, 1, 2)

\* The file_name argument of download_and_save_file  (main.rs:136, 148-151, 163-166)
hint_of(message) ==
    IF message.kind = "Photo" THEN message.caption
    ELSE or(message.caption, message.file_name)

\* The ext argument of download_and_save_file  (main.rs:137, 152, 167)
default_ext_of(kind) ==
    CASE kind = "Photo" -> S_jpg
      [] kind = "Video" -> S_mp4
      [] kind = "Audio" -> S_mp3

\* None for a message that is skipped (main.rs:120, 174), else the arguments
\* of the download_and_save_file call.
select_media(message) ==
    IF message.kind \notin {"Photo", "Video", "Audio"} THEN None
    ELSE Some([file_meta |-> IF message.kind = "Photo"
                             THEN message.files[max_by_key(message.files)]
                             ELSE message.files[1],
               file_name |-> hint_of(message),
               ext |-> default_ext_of(message.kind),
               media_group_id |-> message.media_group_id])

\* ------------------------------------------------------------------------
\* The media-group registry entry  (main.rs:189-198)
\* ------------------------------------------------------------------------
\* The title of a new entry  (main.rs:191-195)
title_whole_name(file_name, media_group_id) == unwrap_or(file_name, media_group_id)
title_of(file_name, media_group_id) ==
    IF is_some(file_name)
    THEN unwrap_or(file_stem(unwrap(file_name)), media_group_id)
    ELSE media_group_id

\* entry(..).or_insert(..): the entry found, or the new one  (main.rs:189-196)
or_insert_retitle(found, file_name, media_group_id) ==
    [page_number |-> IF is_some(found) THEN unwrap(found).page_number ELSE 0,
     title |-> title_of(file_name, media_group_id)]
or_insert(found, file_name, media_group_id) ==
    IF is_some(found) THEN unwrap(found)
    ELSE [page_number |-> 0, title |-> title_of(file_name, media_group_id)]

\* page_number += 1  (main.rs:197)
increment_twice(entry) == [entry EXCEPT !.page_number = @ + 2]
increment(entry) == [entry EXCEPT !.page_number = @ + 1]

\* The entry after the critical section's two statements  (main.rs:189-197)
advance_entry(found, file_name, media_group_id) ==
    increment(or_insert(found, file_name, media_group_id))

\* ------------------------------------------------------------------------
\* PathBuf::push and Path::parent on Unix  (main.rs:205-208)
\* ------------------------------------------------------------------------
push(dir, name) ==
    IF is_absolute(name) THEN name
    ELSE IF dir = <<>> \/ dir[Len(dir)] = "/" THEN dir \o name
    ELSE dir \o <<"/">> \o name

\* Where the last normal component of s starts (0 when there is none).
RECURSIVE last_component_start(_, _)
last_component_start(s, end) ==
    IF end = 0 THEN 0
    ELSE IF s[end] = "/" THEN last_component_start(s, end - 1)
    ELSE LET begin == SetMax({0} \cup {j \in 1..end : s[j] = "/"}) + 1
         IN  IF SubSeq(s, begin, end) = <<".">> THEN last_component_start(s, begin - 1)
             ELSE begin

RECURSIVE trim_separators(_)
trim_separators(s) ==
    IF Len(s) > 1 /\ s[Len(s)] = "/" THEN trim_separators(SubSeq(s, 1, Len(s) - 1)) ELSE s

parent(s) ==
    LET begin == last_component_start(s, Len(s))
    IN  IF begin = 0 THEN None ELSE Some(trim_separators(SubSeq(s, 1, begin - 1)))

\* main.rs:205-206
file_path_of(media_directory, name) ==
    push(media_directory, name.filename \o <<".">> \o name.extension)

\* ------------------------------------------------------------------------
\* The bot: configuration, inbound channel posts, handlers
\* ------------------------------------------------------------------------
\* AppConfig  (main.rs:33-38)
app_config == [channel_id |-> 1001, media_directory |-> <<"m">>]

\* How many channel posts the dispatcher hands to handler invocations.
NumHandlers == 2
Handlers == 1..NumHandlers

Str_7 == <<"7">>
Str_8 == <<"8">>
Str_v_m == <<"v", ".", "m">>
PhotoSizes == <<[unique_id |-> <<"s">>, size |-> 100],
                [unique_id |-> <<"x">>, size |-> 500],
                [unique_id |-> <<"l">>, size |-> 300]>>
VideoFile == <<[unique_id |-> <<"x">>, size |-> 900]>>
AudioFile == <<[unique_id |-> <<"y", "/">>, size |-> 700]>>

Message(chat_id, kind, caption, file_name, media_group_id, files) ==
    [chat_id |-> chat_id, kind |-> kind, caption |-> caption, file_name |-> file_name,
     media_group_id |-> media_group_id, files |-> files]

\* The channel posts the platform may deliver.
Messages ==
    { Message(1002, "Video", Some(<<"a">>), Some(Str_v_m), Some(Str_7), VideoFile),
      Message(1001, "Photo", Some(<<"a", ".", "b">>), None, Some(Str_7), PhotoSizes),
      Message(1001, "Photo", None, None, Some(Str_8), PhotoSizes),
      Message(1001, "Video", None, Some(Str_v_m), Some(Str_7), VideoFile),
      Message(1001, "Audio", Some(<<"a", "/", "b">>), Some(Str_v_m), None, AudioFile),
      Message(1001, "Text", None, None, Some(Str_7), <<>>),
      Message(1001, "Service", None, None, None, <<>>) }

GroupIds == {unwrap(m.media_group_id) : m \in {x \in Messages : is_some(x.media_group_id)}}

\* What bot.get_file may resolve a file id to: a platform-relative path, or an
\* absolute path of a self-hosted Bot API server.
TransferPaths == {<<"d", "/", "f">>, <<"/", "d", "/", "f">>}

VARIABLES
    media_group_page_numbers, \* AppState.media_group_page_numbers: group id -> Option<MediaGroupData>
    mutex,                    \* the handler holding the registry's Mutex, if any
    pc,                       \* where each handler invocation is
    message,                  \* the channel post of each handler invocation
    args,                     \* the arguments of its download_and_save_file call
    media_group,              \* its local media_group (the clone of the entry)
    file,                     \* the transfer path get_file resolved
    file_path,                \* the destination it resolved: [name, path]
    result,                   \* what the handler returned to the dispatcher
    io,                       \* the transport and filesystem calls each handler made, in order
    dirs,                     \* the directories that exist
    files,                    \* the files that exist: path -> content
    issued,                   \* the registry advances, in order: [handler, group, page_number]
    first, second             \* the calls of the resolver specification

bot_vars == <<media_group_page_numbers, mutex, pc, message, args, media_group, file,
              file_path, result, io, dirs, files, issued>>
vars == <<bot_vars, first, second>>

NoCall == [op |-> "none"]

Init ==
    /\ media_group_page_numbers = [g \in GroupIds |-> None]
    /\ mutex = None
    /\ pc = [p \in Handlers |-> "idle"]
    /\ message = [p \in Handlers |-> None]
    /\ args = [p \in Handlers |-> None]
    /\ media_group = [p \in Handlers |-> None]
    /\ file = [p \in Handlers |-> None]
    /\ file_path = [p \in Handlers |-> None]
    /\ result = [p \in Handlers |-> "pending"]
    /\ io = [p \in Handlers |-> <<>>]
    /\ dirs = {}
    /\ files = <<>>
    /\ issued = <<>>
    /\ first = NoCall
    /\ second = NoCall

\* The dptree filter of the endpoint  (main.rs:85-87)
channel_filter_any(m) == TRUE
channel_filter(m) == app_config.channel_id = m.chat_id

\* The dispatcher hands the next channel post to a handler invocation; a post
\* the filter rejects goes to the default handler  (main.rs:84-99)
dispatch(p) ==
    /\ pc[p] = "idle"
    /\ \A q \in Handlers : q < p => pc[q] # "idle"
    /\ \E m \in Messages :
         /\ message' = [message EXCEPT ![p] = Some(m)]
         /\ pc' = [pc EXCEPT ![p] = IF channel_filter(m) THEN "handle" ELSE "unhandled"]
    /\ UNCHANGED <<media_group_page_numbers, mutex, args, media_group, file, file_path,
                   result, io, dirs, files, issued, first, second>>

\* if let Some(media_group_id) = &media_group_id: a post of a group goes
\* through the registry first, any other goes straight to get_file  (main.rs:187-203)
first_step_lock(media_group_id) == "lock"
first_step(media_group_id) == IF is_some(media_group_id) THEN "lock" ELSE "get_file"

\* handle_media_message up to the download_and_save_file call  (main.rs:113-175)
handle_media_message(p) ==
    /\ pc[p] = "handle"
    /\ LET sel == select_media(unwrap(message[p]))
       IN  IF sel = None
           THEN /\ pc' = [pc EXCEPT ![p] = "done"]
                /\ result' = [result EXCEPT ![p] = "Ok"]
                /\ args' = args
           ELSE /\ args' = [args EXCEPT ![p] = sel]
                /\ pc' = [pc EXCEPT ![p] = first_step(unwrap(sel).media_group_id)]
                /\ result' = result
    /\ UNCHANGED <<media_group_page_numbers, mutex, message, media_group, file, file_path,
                   io, dirs, files, issued, first, second>>

\* Mutex::lock  (main.rs:188)
lock_unguarded(m) == TRUE
lock_available(m) == m = None

lock(p) ==
    /\ pc[p] = "lock"
    /\ lock_available(mutex)
    /\ mutex' = Some(p)
    /\ pc' = [pc EXCEPT ![p] = "advance"]
    /\ UNCHANGED <<media_group_page_numbers, message, args, media_group, file, file_path,
                   result, io, dirs, files, issued, first, second>>

\* entry(..).or_insert(..) and page_number += 1  (main.rs:189-197)
advance(p) ==
    /\ pc[p] = "advance"
    /\ LET a == unwrap(args[p])
           g == unwrap(a.media_group_id)
           entry == advance_entry(media_group_page_numbers[g], a.file_name, g)
       IN  /\ media_group_page_numbers' = [media_group_page_numbers EXCEPT ![g] = Some(entry)]
           /\ issued' = Append(issued, [handler |-> p, group |-> g,
                                        page_number |-> entry.page_number])
    /\ pc' = [pc EXCEPT ![p] = "unlock"]
    /\ UNCHANGED <<mutex, message, args, media_group, file, file_path, result, io, dirs,
                   files, first, second>>

\* The clone of the entry and the end of the guard's scope  (main.rs:198-199)
unlock_keep(p) ==
    /\ pc[p] = "unlock"
    /\ media_group' = [media_group EXCEPT
                         ![p] = media_group_page_numbers[unwrap(unwrap(args[p]).media_group_id)]]
    /\ mutex' = mutex
    /\ pc' = [pc EXCEPT ![p] = "get_file"]
    /\ UNCHANGED <<media_group_page_numbers, message, args, file, file_path, result, io,
                   dirs, files, issued, first, second>>

unlock(p) ==
    /\ pc[p] = "unlock"
    /\ media_group' = [media_group EXCEPT
                         ![p] = media_group_page_numbers[unwrap(unwrap(args[p]).media_group_id)]]
    /\ mutex' = None
    /\ pc' = [pc EXCEPT ![p] = "get_file"]
    /\ UNCHANGED <<media_group_page_numbers, message, args, file, file_path, result, io,
                   dirs, files, issued, first, second>>

finish(p, outcome) ==
    /\ pc' = [pc EXCEPT ![p] = "done"]
    /\ result' = [result EXCEPT ![p] = outcome]

\* bot.get_file(..).send().await? and the destination path  (main.rs:203-206)
get_file_retry(p) ==
    /\ pc[p] = "get_file"
    /\ io' = [io EXCEPT ![p] = Append(@, "get_file")]
    /\ Len(io[p]) < 2
    /\ UNCHANGED <<pc, result, file, file_path>>
    /\ UNCHANGED <<media_group_page_numbers, mutex, message, args, media_group, dirs, files,
                   issued, first, second>>

get_file(p) ==
    /\ pc[p] = "get_file"
    /\ io' = [io EXCEPT ![p] = Append(@, "get_file")]
    /\ \/ /\ finish(p, "Err")
          /\ UNCHANGED <<file, file_path>>
       \/ \E path \in TransferPaths :
            LET a == unwrap(args[p])
                name == get_filename_and_extension(a.file_meta.unique_id, a.file_name,
                                                   a.ext, media_group[p])
            IN  /\ file' = [file EXCEPT ![p] = Some(path)]
                /\ file_path' = [file_path EXCEPT
                                   ![p] = Some([name |-> name,
                                                path |-> file_path_of(app_config.media_directory,
                                                                      name)])]
                /\ pc' = [pc EXCEPT ![p] = "create_dir_all"]
                /\ result' = result
    /\ UNCHANGED <<media_group_page_numbers, mutex, message, args, media_group, dirs, files,
                   issued, first, second>>

\* tokio::fs::create_dir_all(parent).await?  (main.rs:208-210)
create_dir_all(p) ==
    /\ pc[p] = "create_dir_all"
    /\ io' = [io EXCEPT ![p] = Append(@, "create_dir_all")]
    /\ \/ /\ finish(p, "Err")
          /\ dirs' = dirs
       \/ /\ dirs' = dirs \cup {unwrap(parent(unwrap(file_path[p]).path))}
          /\ pc' = [pc EXCEPT ![p] = "create"]
          /\ result' = result
    /\ UNCHANGED <<media_group_page_numbers, mutex, message, args, media_group, file,
                   file_path, files, issued, first, second>>

\* files with path created or truncated to content
write_file(fs, path, content) ==
    [x \in (DOMAIN fs) \cup {path} |-> IF x = path THEN content ELSE fs[x]]

\* tokio::fs::File::create(&file_path).await?  (main.rs:211-213)
create_unchecked(p) ==
    /\ pc[p] = "create"
    /\ io' = [io EXCEPT ![p] = Append(@, "create")]
    /\ LET path == unwrap(file_path[p]).path
       IN  /\ files' \in {files, write_file(files, path, "empty")}
           /\ pc' = [pc EXCEPT ![p] = "transfer"]
           /\ result' = result
    /\ UNCHANGED <<media_group_page_numbers, mutex, message, args, media_group, file,
                   file_path, dirs, issued, first, second>>

create(p) ==
    /\ pc[p] = "create"
    /\ io' = [io EXCEPT ![p] = Append(@, "create")]
    /\ LET path == unwrap(file_path[p]).path
       IN  \/ /\ finish(p, "Err")
              /\ files' = files
           \/ /\ unwrap(parent(path)) \in dirs
              /\ files' = write_file(files, path, "empty")
              /\ pc' = [pc EXCEPT ![p] = "transfer"]
              /\ result' = result
    /\ UNCHANGED <<media_group_page_numbers, mutex, message, args, media_group, file,
                   file_path, dirs, issued, first, second>>

\* What a failed copy leaves in the destination: nothing, or the bytes written so far.
after_failure(fs, path) == {fs, write_file(fs, path, "partial")}

\* The absolute transfer path: open, read_to_end, write_all, each with ?  (main.rs:214-218)
read_local(p) ==
    /\ pc[p] = "transfer"
    /\ is_absolute(unwrap(file[p]))
    /\ io' = [io EXCEPT ![p] = Append(@, "read_local")]
    /\ LET path == unwrap(file_path[p]).path
       IN  \/ /\ finish(p, "Err")
              /\ files' \in after_failure(files, path)
           \/ /\ finish(p, "Ok")
              /\ files' = write_file(files, path, "full")
    /\ UNCHANGED <<media_group_page_numbers, mutex, message, args, media_group, file,
                   file_path, dirs, issued, first, second>>

\* bot.download_file(&file.path, &mut dst): an error is logged with
\* log::error!, a success with log::info!  (main.rs:219-224)
download_file(p) ==
    /\ pc[p] = "transfer"
    /\ ~is_absolute(unwrap(file[p]))
    /\ finish(p, "Ok")
    /\ LET path == unwrap(file_path[p]).path
       IN  \/ /\ files' \in after_failure(files, path)
              /\ io' = [io EXCEPT ![p] = @ \o <<"download_file", "log_error">>]
           \/ /\ files' = write_file(files, path, "full")
              /\ io' = [io EXCEPT ![p] = @ \o <<"download_file", "log_info">>]
    /\ UNCHANGED <<media_group_page_numbers, mutex, message, args, media_group, file,
                   file_path, dirs, issued, first, second>>

Next ==
    \E p \in Handlers :
        \/ dispatch(p)
        \/ handle_media_message(p)
        \/ lock(p)
        \/ advance(p)
        \/ unlock(p)
        \/ get_file(p)
        \/ create_dir_all(p)
        \/ create(p)
        \/ read_local(p)
        \/ download_file(p)

Spec == Init /\ [][Next]_vars

\* The critical section has no .await (main.rs:188-198): a handler that can
\* take the mutex, or holds it, runs on to the end of the guard's scope.  The
\* awaited calls may stay pending for ever, so they get no fairness.
FairSpec ==
    /\ Spec
    /\ \A p \in Handlers :
          WF_vars(lock(p)) /\ WF_vars(advance(p)) /\ WF_vars(unlock(p))

\* ------------------------------------------------------------------------
\* The resolver specification: one handler invocation run alone on inputs
\* drawn from bounded sets of strings, the extractor on bounded photo lists,
\* and get_filename_and_extension called twice.
\* ------------------------------------------------------------------------
OptionOf(S) == {None} \cup {Some(x) : x \in S}

\* Captions and file names: a letter, the dot and the separator.
MaxLen == 3
ResolveChars == {"a", ".", "/"}
ResolveStrings == StringsUpTo(ResolveChars, MaxLen)
ResolveUniqueIds == {<<"u">>, <<"u", "/">>}
ResolveGroupIds == {Str_7, <<"7", "/">>}

\* The registry's entry for the post's group before the call: none, or one an
\* earlier post of the group left.
FoundEntries(media_group_id) ==
    IF media_group_id = None THEN {None}
    ELSE OptionOf({[page_number |-> n, title |-> t] :
                      n \in {1, 9}, t \in {unwrap(media_group_id), <<"a">>}})

handle_alone ==
    /\ first = NoCall
    /\ \E kind \in {"Photo", "Video", "Audio"}, caption \in OptionOf(ResolveStrings),
          unique_id \in ResolveUniqueIds, media_group_id \in OptionOf(ResolveGroupIds) :
         \E file_name \in IF kind = "Photo" THEN {None} ELSE OptionOf(ResolveStrings),
            found \in FoundEntries(media_group_id) :
            LET m == Message(app_config.channel_id, kind, caption, file_name, media_group_id,
                             <<[unique_id |-> unique_id, size |-> 1]>>)
                a == unwrap(select_media(m))
                mg == IF is_some(media_group_id)
                      THEN Some(advance_entry(found, a.file_name, unwrap(media_group_id)))
                      ELSE None
                name == get_filename_and_extension(a.file_meta.unique_id, a.file_name,
                                                   a.ext, mg)
            IN  first' = [op |-> "handle", message |-> m, found |-> found, args |-> a,
                          media_group |-> mg, name |-> name,
                          path |-> file_path_of(app_config.media_directory, name)]
    /\ UNCHANGED <<bot_vars, second>>

\* Photo posts with 1..MaxPhotos size variants.
MaxPhotos == 3
VariantSizes == {100, 300, 500}
RECURSIVE PhotosOfLen(_)
PhotosOfLen(n) ==
    IF n = 0 THEN {<<>>}
    ELSE {Append(ph, [unique_id |-> <<DecimalDigits[n + 1]>>, size |-> z]) :
             ph \in PhotosOfLen(n - 1), z \in VariantSizes}
PhotoLists == UNION {PhotosOfLen(n) : n \in 1..MaxPhotos}

select_photo ==
    /\ first = NoCall
    /\ \E photo \in PhotoLists :
         LET m == Message(app_config.channel_id, "Photo", None, None, None, photo)
         IN  first' = [op |-> "select", message |-> m, args |-> unwrap(select_media(m))]
    /\ UNCHANGED <<bot_vars, second>>

\* Arguments of two get_filename_and_extension calls: unique ids and hints
\* over a letter, the separator, the backslash and the body's own delimiters.
PairUniqueIds ==
    {<<c>> : c \in {"a", "b", "/", "\\", "]", "_"}}
        \cup {<<"]", "_", c>> : c \in {"a", "b"}}
        \cup {<<"a", c>> : c \in {"/", "\\"}}
PairFileNames == OptionOf({<<>>, <<"a">>, <<"/">>, <<"]", "_">>, <<"a", ".", "a">>})
PairGroups == OptionOf({[page_number |-> n, title |-> t] :
                           n \in {1, 2}, t \in {<<"a">>, <<"a", "]", "_">>}})
PairArgs ==
    [unique_id : PairUniqueIds, file_name : PairFileNames, default_ext : {S_jpg, S_mp4},
     media_group_data : PairGroups]

resolved(c) ==
    [op |-> "resolve", args |-> c,
     name |-> get_filename_and_extension(c.unique_id, c.file_name, c.default_ext,
                                         c.media_group_data)]

resolve_first ==
    /\ first = NoCall
    /\ \E c \in PairArgs : first' = resolved(c)
    /\ UNCHANGED <<bot_vars, second>>

resolve_second ==
    /\ first.op = "resolve"
    /\ second = NoCall
    /\ \E c \in PairArgs : second' = resolved(c)
    /\ UNCHANGED <<bot_vars, first>>

NextResolve ==
    \/ handle_alone
    \/ select_photo
    \/ resolve_first
    \/ resolve_second

SpecResolve == Init /\ [][NextResolve]_vars

\* ========================================================================
\* Properties
\* ========================================================================
Str_vacation_mp4 == <<"v", "a", "c", "a", "t", "i", "o", "n", ".", "m", "p", "4">>
Str_vacation == <<"v", "a", "c", "a", "t", "i", "o", "n">>
Str_Sunset == <<"S", "u", "n", "s", "e", "t">>
Str_Trip == <<"T", "r", "i", "p">>
Str_xyz == <<"x", "y", "z">>

Handled == first.op = "handle"
Paired == first.op = "resolve" /\ second.op = "resolve"

\* A file name of one path component: a stem, or stem "." extension.
ProperName(h) ==
    /\ h # <<>>
    /\ ~Contains(h, "/")
    /\ h[1] # "." /\ h[Len(h)] # "."
    /\ Cardinality({i \in 1..Len(h) : h[i] = "."}) <= 1

\* Posts as the platform sends them: no empty caption, a proper file name.
ProperHints(m) ==
    /\ m.caption # Some(<<>>)
    /\ m.file_name = None \/ ProperName(unwrap(m.file_name))

\* The stem source the specification describes: the caption, else the stem of
\* the original file name, else the empty string.
StemSource(m) ==
    IF is_some(m.caption) THEN unwrap(m.caption)
    ELSE IF is_some(m.file_name) THEN unwrap(file_stem(unwrap(m.file_name)))
    ELSE <<>>

\* C2: for a post without a media group the file name body is
\* "[" + stem_source + "]_" + unique_id before sanitization, stem_source being
\* the caption, else the stem of the original file name (the file name
\* without its extension), else "".
C2_BodyFromStemSource ==
    (Handled /\ first.message.media_group_id = None /\ ProperHints(first.message))
        => first.name.filename
              = replace_slash(<<"[">> \o StemSource(first.message) \o <<"]", "_">>
                              \o first.message.files[1].unique_id)

\* C3: the extension is the original file name's path extension when it has
\* one, else the kind's default (jpg, mp4, mp3); the caption never influences
\* it.
C3_ExtensionFromFileNameOnly ==
    (Handled /\ ProperHints(first.message)) =>
        LET m == first.message
            own == IF is_some(m.file_name) THEN extension(unwrap(m.file_name)) ELSE None
        IN  first.name.extension
               = IF is_some(own) THEN unwrap(own)
                 ELSE CASE m.kind = "Photo" -> <<"j", "p", "g">>
                        [] m.kind = "Video" -> <<"m", "p", "4">>
                        [] m.kind = "Audio" -> <<"m", "p", "3">>

\* The positions of the variants of maximum byte size.
Largest(photo) == {i \in 1..Len(photo) : \A j \in 1..Len(photo) : photo[j].size <= photo[i].size}

\* C4 (as stated): the extractor selects a variant of maximum byte size, the
\* first of them in iteration order when several share the maximum.
C4_FirstMaximumWins ==
    first.op = "select"
        => first.args.file_meta = first.message.files[SetMin(Largest(first.message.files))]

\* C4 (amended): the extractor selects a variant of maximum byte size, the
\* last of them in iteration order when several share the maximum; sizes
\* [100, 500, 300] select the 500-byte variant.
C4_LastMaximumWins ==
    first.op = "select" =>
        LET photo == first.message.files
            chosen == first.args.file_meta
        IN  /\ \A j \in 1..Len(photo) : photo[j].size <= chosen.size
            /\ chosen = photo[SetMax(Largest(photo))]
            /\ [i \in 1..Len(photo) |-> photo[i].size] = <<100, 500, 300>>
                  => chosen.size = 500 /\ chosen = photo[2]

C4_Witness ==
    /\ first.op = "select"
    /\ Cardinality(Largest(first.message.files)) = 2
    /\ Len(first.message.files) = 3
    /\ first.args.file_meta = first.message.files[3]

\* The fallback title source: the caption, or the original file name of a
\* video or audio without caption.
TitleSource(m) ==
    IF is_some(m.caption) THEN m.caption
    ELSE IF m.kind \in {"Video", "Audio"} THEN m.file_name
    ELSE None

\* A plain name: stem "." extension, one dot, no separator, a stem.
PlainName(h) ==
    /\ ~Contains(h, "/")
    /\ Cardinality({i \in 1..Len(h) : h[i] = "."}) = 1
    /\ h[1] # "."

\* C5: the first advance for an unseen group id creates the entry with the
\* stem of the fallback title source as title when the source is present and
\* has a stem, and with the group id itself otherwise; "vacation.mp4" gives
\* "vacation".
C5_TitleOfNewEntry ==
    /\ (Handled /\ is_some(first.message.media_group_id) /\ first.found = None) =>
          LET m == first.message
              g == unwrap(m.media_group_id)
              src == TitleSource(m)
              title == unwrap(first.media_group).title
          IN  /\ title = IF is_some(src) /\ is_some(file_stem(unwrap(src)))
                         THEN unwrap(file_stem(unwrap(src))) ELSE g
              /\ (src = None \/ src = Some(<<>>)) => title = g
              /\ (is_some(src) /\ PlainName(unwrap(src)))
                    => title \o <<".">> \o unwrap(extension(unwrap(src))) = unwrap(src)
              /\ unwrap(first.media_group).page_number = 1
    /\ title_of(Some(Str_vacation_mp4), Str_7) = Str_vacation
    /\ title_of(Some(<<>>), Str_7) = Str_7

C5_Witness ==
    /\ Handled
    /\ first.found = None
    /\ first.message.kind = "Video"
    /\ first.message.caption = None
    /\ first.message.file_name = Some(<<"a", ".", "a">>)
    /\ first.message.media_group_id = Some(Str_7)
    /\ unwrap(first.media_group).title = <<"a">>

\* The decimal text of the page numbers the resolver specification issues.
PageText(n) ==
    CASE n = 1 -> <<"1">>
      [] n = 2 -> <<"2">>
      [] n = 10 -> <<"1", "0">>

\* C6: for a post of a media group the body is
\* "title:[" + title + "]_" + unique_id + "{page:" + page_number + "}" before
\* sanitization, with the title and page number its own advance returned,
\* whatever its caption or file name; ("Trip", 3), unique id "xyz", caption
\* "Sunset" give "title:[Trip]_xyz{page:3}" and "jpg".
C6_GroupBody ==
    /\ (Handled /\ is_some(first.message.media_group_id)) =>
          LET m == first.message
              title == IF first.found = None THEN unwrap(first.media_group).title
                       ELSE unwrap(first.found).title
              page == IF first.found = None THEN 1 ELSE unwrap(first.found).page_number + 1
          IN  first.name.filename
                 = replace_slash(<<"t", "i", "t", "l", "e", ":", "[">> \o title \o <<"]", "_">>
                                 \o m.files[1].unique_id
                                 \o <<"{", "p", "a", "g", "e", ":">> \o PageText(page)
                                 \o <<"}">>)
    /\ get_filename_and_extension(Str_xyz, Some(Str_Sunset), S_jpg,
                                  Some([page_number |-> 3, title |-> Str_Trip]))
          = [filename |-> <<"t", "i", "t", "l", "e", ":", "[", "T", "r", "i", "p", "]", "_",
                            "x", "y", "z", "{", "p", "a", "g", "e", ":", "3", "}">>,
             extension |-> <<"j", "p", "g">>]

C6_Witness ==
    /\ Handled
    /\ is_some(first.message.media_group_id)
    /\ is_some(first.found)
    /\ unwrap(first.found).page_number = 9
    /\ first.message.caption = Some(<<"a", ".", "/">>)
    /\ unwrap(first.found).title = <<"7", "/">>

\* C7: neither the resolved body nor the resolved extension contains a path
\* separator, so the destination is a direct child of the media directory.
C7_NoSeparator ==
    Handled =>
        /\ ~Contains(first.name.filename, "/")
        /\ ~Contains(first.name.extension, "/")
        /\ parent(first.path) = Some(app_config.media_directory)
        /\ file_name_of(first.path)
              = Some(first.name.filename \o <<".">> \o first.name.extension)

C7_Witness ==
    /\ Handled
    /\ first.message.media_group_id = None
    /\ is_some(first.message.caption)
    /\ Contains(unwrap(first.message.caption), "/")
    /\ Contains(first.message.files[1].unique_id, "/")
    /\ Contains(first.name.filename, "\\")

SameButUniqueId ==
    /\ first.args.file_name = second.args.file_name
    /\ first.args.default_ext = second.args.default_ext
    /\ first.args.media_group_data = second.args.media_group_data
    /\ first.args.unique_id # second.args.unique_id

\* C8 (as stated): with caption, file name hint, default extension and group
\* data equal, any two distinct unique ids give distinct bodies.
C8_DistinctIdsDistinctBodies ==
    (Paired /\ SameButUniqueId) => first.name.filename # second.name.filename

\* C8 (amended): with caption, file name hint, default extension and group
\* data equal, any two distinct unique ids that contain no "/" give distinct
\* bodies.
C8_DistinctSeparatorFreeIds ==
    (Paired /\ SameButUniqueId
        /\ ~Contains(first.args.unique_id, "/") /\ ~Contains(second.args.unique_id, "/"))
        => first.name.filename # second.name.filename

C8_Witness ==
    /\ Paired
    /\ SameButUniqueId
    /\ first.args.unique_id = <<"a", "\\">>
    /\ second.args.unique_id = <<"a">>
    /\ is_some(first.args.media_group_data)
    /\ first.name.filename # second.name.filename

\* C9 (as stated): any two inbound media with different unique ids resolve
\* to different bodies, whatever their captions, hints and group data.
C9_DifferentIdsDifferentBodies ==
    (Paired /\ first.args.unique_id # second.args.unique_id)
        => first.name.filename # second.name.filename

CleanId(u) == ~Contains(u, "/") /\ ~Contains(u, "]")

\* C9 (amended): any two inbound media with different unique ids that
\* contain neither "/" nor "]" resolve to different bodies, whatever their
\* captions, hints and group data.
C9_DifferentCleanIds ==
    (Paired /\ first.args.unique_id # second.args.unique_id
        /\ CleanId(first.args.unique_id) /\ CleanId(second.args.unique_id))
        => first.name.filename # second.name.filename

C9_Witness ==
    /\ Paired
    /\ first.args.unique_id = <<"a">>
    /\ second.args.unique_id = <<"b">>
    /\ first.args.file_name = Some(<<"]", "_">>)
    /\ second.args.file_name = Some(<<>>)
    /\ first.args.media_group_data = None
    /\ second.args.media_group_data = None
    /\ first.name.filename # second.name.filename

\* The handlers that have been handed back their (title, page number) for
\* group g, and those that have performed the advance for it.
GroupOf(p) == IF is_some(args[p]) THEN unwrap(args[p]).media_group_id ELSE None
Returned(g) == {p \in Handlers : GroupOf(p) = Some(g) /\ is_some(media_group[p])}
Advanced(g) ==
    {p \in Handlers : GroupOf(p) = Some(g) /\ pc[p] \notin {"handle", "lock", "advance"}}
PageOf(p) == unwrap(media_group[p]).page_number

\* C1: the handler invocations that advance the sequencer for one group id
\* obtain the page numbers 1..N, each exactly once, under every interleaving:
\* the first is 1, none is skipped, no two invocations obtain the same one.
C1_PagesOneToN ==
    \A g \in GroupIds :
        /\ \A p, q \in Returned(g) : p # q => PageOf(p) # PageOf(q)
        /\ {PageOf(p) : p \in Returned(g)} \subseteq 1..Cardinality(Advanced(g))
        /\ Returned(g) = Advanced(g)
              => {PageOf(p) : p \in Returned(g)} = 1..Cardinality(Returned(g))

C1_Witness ==
    /\ Returned(Str_7) = Handlers
    /\ \A p \in Handlers : pc[p] = "done"
    /\ PageOf(1) = NumHandlers

Foreign(p) == is_some(message[p]) /\ unwrap(message[p]).chat_id # app_config.channel_id

\* C10: a post of another channel causes no transport call and no filesystem
\* operation and leaves the registry unchanged, even when it carries media
\* and a group id.
C10_ForeignPostIgnored ==
    /\ \A p \in Handlers :
          Foreign(p) =>
              /\ pc[p] = "unhandled"
              /\ io[p] = <<>>
              /\ args[p] = None /\ media_group[p] = None
              /\ file[p] = None /\ file_path[p] = None
              /\ \A i \in 1..Len(issued) : issued[i].handler # p
    /\ (\A p \in Handlers : is_some(message[p]) => Foreign(p)) =>
          /\ dirs = {} /\ files = <<>>
          /\ mutex = None
          /\ \A g \in GroupIds : media_group_page_numbers[g] = None

C10_Witness ==
    /\ Foreign(1)
    /\ unwrap(message[1]).kind = "Video"
    /\ unwrap(message[1]).media_group_id = Some(Str_7)
    /\ pc[2] = "done"
    /\ GroupOf(2) = Some(Str_7)
    /\ is_some(media_group[2]) /\ PageOf(2) = 1
    /\ Len(issued) = 1

\* The byte transfer of handler p was attempted and failed: the network fetch
\* logged its error, or the local read ended the handler with an error.
TransferFailed(p) ==
    /\ pc[p] = "done"
    /\ Len(io[p]) >= 4
    /\ \/ io[p][4] = "download_file" /\ io[p][Len(io[p])] = "log_error"
       \/ io[p][4] = "read_local" /\ result[p] = "Err"

\* C11: once the destination file is created, a failure of the byte transfer
\* is swallowed: the handler returns success and the destination file stays on
\* disk, for the network fetch and for the local read of an absolute path.
C11_TransferFailureSwallowed ==
    \A p \in Handlers :
        TransferFailed(p)
            => result[p] = "Ok" /\ unwrap(file_path[p]).path \in DOMAIN files

Transfers == {"read_local", "download_file"}

\* The positions of event e in the log of handler p.
Positions(p, e) == {i \in 1..Len(io[p]) : io[p][i] = e}

Attempted(p, e) == Positions(p, e) # {}

\* Handler p ended right after e, that is, e failed.
FailedAt(p, e) == pc[p] = "done" /\ io[p] # <<>> /\ io[p][Len(io[p])] = e

\* C12: a failure to create the destination directory or the destination file
\* ends the handler with an error and without a byte transfer; the directory
\* exists before the file is created and the file exists before a transfer.
C12_FilesystemFailurePropagates ==
    \A p \in Handlers :
        /\ FailedAt(p, "create_dir_all") \/ FailedAt(p, "create")
             => /\ result[p] = "Err"
                /\ \A e \in Transfers : ~Attempted(p, e)
        /\ \A i \in Positions(p, "create") : \E j \in Positions(p, "create_dir_all") : j < i
        /\ \A e \in Transfers :
             \A i \in Positions(p, e) : \E j \in Positions(p, "create") : j < i
        /\ pc[p] = "create" => unwrap(parent(unwrap(file_path[p]).path)) \in dirs
        /\ pc[p] = "transfer" \/ (\E e \in Transfers : Attempted(p, e))
             => unwrap(file_path[p]).path \in DOMAIN files

C12_Witness ==
    \E p, q \in Handlers :
        /\ FailedAt(p, "create") /\ result[p] = "Err"
        /\ FailedAt(q, "create_dir_all") /\ result[q] = "Err"

\* C13: a failed resolution of the transfer path drops the message: the handler
\* ends with an error, creates no directory and no file, attempts no transfer,
\* and no message causes more than one resolution or more than one transfer.
C13_ResolutionFailureDrops ==
    \A p \in Handlers :
        /\ FailedAt(p, "get_file")
             => /\ result[p] = "Err"
                /\ io[p] = <<"get_file">>
                /\ file[p] = None /\ file_path[p] = None
        /\ Cardinality(Positions(p, "get_file")) <= 1
        /\ Cardinality(UNION {Positions(p, e) : e \in Transfers}) <= 1
        /\ file[p] = None
             => \A e \in {"create_dir_all", "create"} \cup Transfers : ~Attempted(p, e)

C13_Witness ==
    \E p, q \in Handlers :
        /\ FailedAt(p, "get_file") /\ result[p] = "Err"
        /\ pc[q] = "done" /\ \E e \in Transfers : Attempted(q, e)

\* The page number that handler p wrote into the registry.
Written(p) ==
    LET i == CHOOSE i \in 1..Len(issued) : issued[i].handler = p
    IN  issued[i].page_number

\* C14: when the advance of one post of a group has completed before the
\* advance of another post of that group begins, the first holds the strictly
\* smaller page number, and the page a call returns is the page that call wrote.
C14_OrderedPages ==
    [][\A q \in Handlers :
         /\ pc[q] = "advance" /\ pc'[q] = "unlock"
              => LET g == unwrap(GroupOf(q))
                 IN  \A p \in Returned(g) :
                        PageOf(p) < unwrap(media_group_page_numbers'[g]).page_number
         /\ pc[q] = "unlock" /\ pc'[q] = "get_file"
              => unwrap(media_group'[q]).page_number = Written(q)]_vars

C14_Witness ==
    /\ Len(issued) = 2
    /\ issued[1].group = issued[2].group
    /\ issued[1].handler = 2 /\ issued[2].handler = 1
    /\ Returned(issued[1].group) = {1, 2}
    /\ PageOf(2) = 1 /\ PageOf(1) = 2

\* C15: an entry of the registry is never removed, its title never changes
\* (every advance returns the title the first advance fixed) and its
\* page_number never decreases, whatever step is taken, failed ones included.
C15_EntryStable ==
    [][\A g \in GroupIds :
         is_some(media_group_page_numbers[g])
            => /\ is_some(media_group_page_numbers'[g])
               /\ unwrap(media_group_page_numbers'[g]).title
                    = unwrap(media_group_page_numbers[g]).title
               /\ unwrap(media_group_page_numbers'[g]).page_number
                    >= unwrap(media_group_page_numbers[g]).page_number
               /\ \A p \in Handlers :
                    GroupOf(p) = Some(g) /\ is_some(media_group'[p])
                       => unwrap(media_group'[p]).title
                            = unwrap(media_group_page_numbers[g]).title]_vars

C15_Witness ==
    \E p, q \in Handlers :
        LET g == unwrap(GroupOf(p))
        IN  /\ is_some(GroupOf(p)) /\ p \in Returned(g)
            /\ PageOf(p) = 2
            /\ unwrap(media_group[p]).title # title_of(unwrap(args[p]).file_name, g)
            /\ pc[p] = "done"
            /\ GroupOf(q) = Some(g) /\ pc[q] = "done" /\ result[q] = "Err"

\* Handler p holds a post of the configured channel.
Accepted(p) == is_some(message[p]) /\ pc[p] \notin {"idle", "unhandled"}

Ungrouped(p) == Accepted(p) /\ unwrap(message[p]).media_group_id = None

NoMedia(p) == Accepted(p) /\ unwrap(message[p]).kind \notin {"Photo", "Video", "Audio"}

\* Handler p never took part in the registry's critical section.
BypassesRegistry(p) ==
    /\ pc[p] \notin {"lock", "advance", "unlock"}
    /\ mutex # Some(p)
    /\ media_group[p] = None
    /\ \A i \in 1..Len(issued) : issued[i].handler # p

\* C16: a post outside any group, and a post whose payload is not a photo, a
\* video or an audio (even one with a group id), never touches the registry;
\* the latter also returns success without a transport call or a file operation.
C16_RegistryBypassed ==
    \A p \in Handlers :
        /\ Ungrouped(p) \/ NoMedia(p) => BypassesRegistry(p)
        /\ NoMedia(p)
             => /\ pc[p] \in {"handle", "done"}
                /\ pc[p] = "done" => result[p] = "Ok"
                /\ io[p] = <<>>
                /\ args[p] = None /\ file[p] = None /\ file_path[p] = None
        /\ (\A q \in Handlers : Accepted(q) => Ungrouped(q) \/ NoMedia(q))
             => /\ \A g \in GroupIds : media_group_page_numbers[g] = None
                /\ issued = <<>>

C16_Witness ==
    \E p, q \in Handlers :
        /\ NoMedia(p) /\ is_some(unwrap(message[p]).media_group_id)
        /\ pc[p] = "done" /\ result[p] = "Ok"
        /\ Ungrouped(q) /\ ~NoMedia(q)
        /\ pc[q] = "done" /\ result[q] = "Ok" /\ Attempted(q, "download_file")
        /\ \A g \in GroupIds : media_group_page_numbers[g] = None

StartsAtRoot(p) == unwrap(file[p])[1] = "/"

\* C17: which of the two transfers a handler uses depends only on whether the
\* resolved transfer path is absolute: the network fetch exactly when it is
\* not, the local read exactly when it is, and never both for one message.
C17_TransferByAbsoluteness ==
    \A p \in Handlers :
        /\ Attempted(p, "download_file") => ~StartsAtRoot(p)
        /\ Attempted(p, "read_local") => StartsAtRoot(p)
        /\ ~(Attempted(p, "download_file") /\ Attempted(p, "read_local"))
        /\ pc[p] = "done" /\ Attempted(p, "create") /\ ~FailedAt(p, "create")
             => /\ Attempted(p, "read_local") <=> StartsAtRoot(p)
                /\ Attempted(p, "download_file") <=> ~StartsAtRoot(p)

C17_Witness ==
    \E p, q \in Handlers :
        /\ message[p] = message[q]
        /\ pc[p] = "done" /\ Attempted(p, "read_local") /\ StartsAtRoot(p)
        /\ pc[q] = "done" /\ Attempted(q, "download_file") /\ ~StartsAtRoot(q)

PageNumber(g) ==
    IF is_some(media_group_page_numbers[g])
    THEN unwrap(media_group_page_numbers[g]).page_number
    ELSE 0

\* C18: a post of a group advances the registry before get_file is called and
\* the advance is never undone: whether the resolution, the directory, the file
\* or the transfer fails, the post has raised its group's page_number by one.
C18_AdvanceKept ==
    /\ \A p \in Handlers :
          is_some(GroupOf(p)) /\ io[p] # <<>>
             => /\ p \in Returned(unwrap(GroupOf(p)))
                /\ \E i \in 1..Len(issued) : issued[i].handler = p
    /\ \A g \in GroupIds : PageNumber(g) = Cardinality(Advanced(g))

C18_Witness ==
    \E p, q \in Handlers, g \in GroupIds :
        /\ p # q /\ Advanced(g) = {p, q}
        /\ FailedAt(p, "get_file") /\ result[p] = "Err"
        /\ FailedAt(q, "read_local") /\ result[q] = "Err"
        /\ PageNumber(g) = 2

Suspended(p) == pc[p] \in {"get_file", "create_dir_all", "create", "transfer"}

\* C19: the registry's mutex is never held at a suspension point (get_file,
\* the creation of the directory or the file, the byte transfer), and under
\* fair scheduling a handler that requests the mutex takes and releases it.
C19_LockReleasedBeforeIO ==
    /\ [](\A p \in Handlers :
            /\ mutex = Some(p) => pc[p] \in {"advance", "unlock"}
            /\ Suspended(p) \/ pc[p] = "done" => mutex # Some(p))
    /\ \A p \in Handlers :
          pc[p] = "lock" ~> (is_some(media_group[p]) /\ mutex # Some(p))

C19_Witness ==
    \E p, q \in Handlers :
        /\ GroupOf(p) = GroupOf(q) /\ is_some(GroupOf(p))
        /\ pc[p] = "get_file" /\ io[p] = <<>> /\ PageOf(p) = 1
        /\ pc[q] = "done" /\ is_some(media_group[q]) /\ PageOf(q) = 2

Body(p) == unwrap(file_path[p]).name.filename

\* C20: two handler invocations for posts of one media group never resolve to
\* the same filename body, in whatever order their steps interleave, even
\* when both posts carry the same unique_id.
C20_GroupBodiesDiffer ==
    \A p, q \in Handlers :
        /\ p # q
        /\ is_some(GroupOf(p)) /\ GroupOf(p) = GroupOf(q)
        /\ is_some(file_path[p]) /\ is_some(file_path[q])
        => Body(p) # Body(q)

C20_Witness ==
    \E p, q \in Handlers :
        /\ p # q
        /\ is_some(GroupOf(p)) /\ GroupOf(p) = GroupOf(q)
        /\ unwrap(args[p]).file_meta.unique_id = unwrap(args[q]).file_meta.unique_id
        /\ message[p] # message[q]
        /\ is_some(file_path[p]) /\ is_some(file_path[q])
        /\ Body(p) # Body(q)

====
